---- MODULE Spec2Model ----
(***************************************************************************)
(* Model of the inference-serving control plane of huddle-node-manager:    *)
(*   - DeviceDetector   (scripts/device_detection_test.py)                 *)
(*   - ResourceMonitor  (scripts/resource_monitor.py)                      *)
(*   - OptimizedLlamaModel.load_model / generate_non_stream                *)
(*                      (scripts/optimized_resource_server.py)             *)
(*                                                                         *)
(* Memory quantities are exact fixed-point numbers: one GB is GB units,    *)
(* one MB (1/1024 GB) is MB units, so that x/1024, 0.2*x ... 0.7*x and     *)
(* 1.2*x are exact on every value the model feeds them.  The Python code   *)
(* computes in binary floating point; the model computes the exact         *)
(* rational value.                                                         *)
(***************************************************************************)
EXTENDS Integers, Sequences, FiniteSets, TLC

\* ------------------------------------------------------------------ units
GB == 1024 * 100
MB == GB \div 1024
Tenth == GB \div 10

\* x * (n/d), for the float products the code writes as x * 0.7 and the like
Times(x, n, d) == (x * n) \div d
Min2(a, b) == IF a <= b THEN a ELSE b
Max2(a, b) == IF a >= b THEN a ELSE b

VARIABLES
    \* DeviceDetector
    system_info,          \* SystemInfo: total/available memory, cpu_percent
    devices,              \* Dict[str, DeviceInfo] (the supported flag)
    other_processes,      \* List[ProcessInfo], sorted by memory, top 10
    best_device,          \* str, "" until _select_best_device has run
    resource_allocation,  \* ResourceAllocation, NoPlan until computed
    dpc,                  \* position of DeviceDetector.__init__
    probe,                \* what the psutil reads of _get_system_info do
    config_file,          \* device_config.json as main() wrote it
    parsed_config,        \* what a reader of device_config.json got
    \* ResourceMonitor
    has_detector,         \* self.device_detector is not None
    thresholds,           \* self.thresholds
    apc,                  \* position of a caller inside _adjust_thresholds_for_device
    adjust_calls,         \* completed calls of _adjust_thresholds_for_device
    observed,             \* what the last get_current_thresholds() returned
    monitoring,           \* self.monitoring
    joining,              \* stop_monitoring inside join(): when it times out
    loops,                \* the _monitor_loop threads started so far
    now,                  \* time.time(), in seconds
    metrics,              \* what psutil / torch report at this moment
    metric_changes,       \* how often the reported metrics have changed
    alert_history,        \* self.alert_history
    alert_callbacks,      \* self.alert_callbacks
    delivered,            \* the callback calls made, in order
    \* OptimizedLlamaModel
    self_device,          \* self.device of the loader
    is_loaded,            \* self.is_loaded
    load_lock,            \* self.load_lock: the set of threads holding it
    model_type,           \* self.model_type: "None", "gguf" or "pytorch"
    max_memory_gb,        \* self.max_memory_gb
    use_conservative_settings,
    batch_size,           \* self.batch_size
    num_attention_heads,  \* self.num_attention_heads
    hidden_size,          \* self.hidden_size
    model_files,          \* what is on disk and which runtimes import
    lpc,                  \* position of each thread inside load_model
    loads,                \* the calls of _load_gguf_model / _load_pytorch_model
    waited,               \* threads that found load_lock taken
    \* generate_non_stream
    request,              \* prompt, max_tokens, temperature of the call
    gpc,                  \* position of generate_non_stream
    attempt,              \* the loop variable of range(max_attempts)
    outcomes,             \* per attempt: parameters used and what came back
    result                \* the dict returned to the caller

detVars == <<system_info, devices, other_processes, best_device,
             resource_allocation, dpc>>

diagVars == <<probe, config_file, parsed_config>>

thrVars == <<has_detector, thresholds, apc, adjust_calls, observed>>

envVars == <<metrics, metric_changes>>

loopVars == <<monitoring, joining, loops, now, alert_history, alert_callbacks, delivered,
              envVars>>

monVars == <<thrVars, loopVars>>

loaderVars == <<self_device, is_loaded, load_lock, model_type, max_memory_gb,
                use_conservative_settings, batch_size, num_attention_heads,
                hidden_size, model_files, lpc, loads, waited>>

genVars == <<request, gpc, attempt, outcomes, result>>

srvVars == <<loaderVars, genVars>>

vars == <<detVars, diagVars, monVars, srvVars>>

\* ======================================================================
\* DeviceDetector
\* ======================================================================

priority_order == <<"mps", "cuda", "rocm", "cpu">>
DeviceTypes == {"mps", "cuda", "rocm", "cpu"}

NoPlan == [kind |-> "none"]

\* processes[:10]
TopN == 10

\* A browser-like process (keyword match, > 100 MB) and a large one (> 500 MB)
IntensiveProc == [name |-> "chrome", memory_mb |-> 150, is_gpu_intensive |-> TRUE]
LargeProc == [name |-> "python", memory_mb |-> 2048, is_gpu_intensive |-> FALSE]

\* (is_gpu_intensive and memory_mb > 100) or memory_mb > 500
KeepsProcess(p) == (p.is_gpu_intensive /\ p.memory_mb > 100) \/ p.memory_mb > 500

\* _detect_other_processes: the kept processes, sorted by memory descending,
\* cut to the first ten.  nLarge large processes come before nIntensive
\* browser-like ones.
DetectedProcesses(nLarge, nIntensive) ==
    LET all == [i \in 1..(nLarge + nIntensive) |->
                   IF i <= nLarge THEN LargeProc ELSE IntensiveProc]
    IN  SubSeq(all, 1, Min2(Len(all), TopN))

RECURSIVE SumMemoryMb(_)
SumMemoryMb(ps) ==
    IF ps = <<>> THEN 0 ELSE Head(ps).memory_mb + SumMemoryMb(Tail(ps))

\* sum(p.memory_mb for p in self.other_processes) / 1024, in GB units
other_processes_memory_gb(ps) == SumMemoryMb(ps) * MB

\* len([p for p in self.other_processes if p.is_gpu_intensive])
IntensiveCount(ps) == Cardinality({i \in 1..Len(ps) : ps[i].is_gpu_intensive})

\* the comparison with "<" written as "<="
PercentBelow_Inclusive(si, n) == si.available_memory_gb * 100 <= n * si.total_memory_gb

\* available_memory_gb / total_memory_gb < n/100; the division raises
\* ZeroDivisionError when total is 0, which the callers test first.
PercentBelow(si, n) == si.available_memory_gb * 100 < n * si.total_memory_gb

\* One pass of the for loop of _select_best_device from position i on:
\* the device returned, or "ZeroDivisionError" when available/total is
\* evaluated with total_memory_gb = 0.
RECURSIVE SelectFrom(_, _, _)
SelectFrom(i, si, devs) ==
    IF i > Len(priority_order) THEN "cpu"
    ELSE LET device_type == priority_order[i] IN
         IF ~devs[device_type].supported THEN SelectFrom(i + 1, si, devs)
         ELSE IF device_type = "mps" THEN
                 IF si.total_memory_gb = 0 THEN "ZeroDivisionError"
                 ELSE IF PercentBelow(si, 25) THEN SelectFrom(i + 1, si, devs)
                 ELSE device_type
         ELSE IF device_type \in {"cuda", "rocm"} THEN
                 IF si.available_memory_gb < 6 * GB
                 THEN SelectFrom(i + 1, si, devs)
                 ELSE device_type
         ELSE device_type

select_best_device(si, devs) == SelectFrom(1, si, devs)

\* the cpu branch missing, so that cpu takes the CUDA/ROCm allocation
base_allocation_gb_NoCpuBranch(device, si) ==
    LET a == si.available_memory_gb IN
    IF device = "mps" THEN
        IF PercentBelow(si, 30) THEN Min2(2 * GB, Times(a, 3, 10))
        ELSE IF PercentBelow(si, 50) THEN Min2(4 * GB, Times(a, 4, 10))
        ELSE Min2(6 * GB, Times(a, 5, 10))
    ELSE Min2(12 * GB, Times(a, 6, 10))

\* Base allocation strategy of _calculate_resource_allocation
base_allocation_gb(device, si) ==
    LET a == si.available_memory_gb IN
    IF device = "mps" THEN
        IF PercentBelow(si, 30) THEN Min2(2 * GB, Times(a, 3, 10))
        ELSE IF PercentBelow(si, 50) THEN Min2(4 * GB, Times(a, 4, 10))
        ELSE Min2(6 * GB, Times(a, 5, 10))
    ELSE IF device = "cpu" THEN Min2(8 * GB, Times(a, 7, 10))
    ELSE Min2(12 * GB, Times(a, 6, 10))

\* the three-way min scaled by cpu_load_factor = 1.0 - cpu_percent / 100.0
safe_allocation_gb_CpuLoad(device, si, ps) ==
    Times(Min2(base_allocation_gb(device, si),
               Min2(Times(si.available_memory_gb, 7, 10),
                    si.total_memory_gb - other_processes_memory_gb(ps)
                        - Times(si.total_memory_gb, 2, 10))),
          100 - si.cpu_percent, 100)

\* min(base, available * 0.7, total - other - total * 0.2); cpu_load_factor
\* is computed and not used
safe_allocation_gb(device, si, ps) ==
    Min2(base_allocation_gb(device, si),
         Min2(Times(si.available_memory_gb, 7, 10),
              si.total_memory_gb - other_processes_memory_gb(ps)
                  - Times(si.total_memory_gb, 2, 10)))

\* max(safe, 2.0) then min(., 16.0), with the lower clamp dropped
final_allocation_gb_NoFloor(device, si, ps) ==
    Min2(safe_allocation_gb(device, si, ps), 16 * GB)

\* the lower clamp at 4.0 (the value before "Reduced minimum")
final_allocation_gb_FloorFour(device, si, ps) ==
    Min2(Max2(safe_allocation_gb(device, si, ps), 4 * GB), 16 * GB)

final_allocation_gb(device, si, ps) ==
    Min2(Max2(safe_allocation_gb(device, si, ps), 2 * GB), 16 * GB)

\* min(final / total, 0.8) as a fraction <<numerator, denominator>>
memory_fraction(final, total) ==
    IF final * 5 <= 4 * total THEN <<final, total>> ELSE <<4, 5>>

\* the any([...]) list without its first entry
use_conservative_NoAvailableTest(device, si, ps) ==
    \/ IntensiveCount(ps) > 8
    \/ si.cpu_percent > 95
    \/ final_allocation_gb(device, si, ps) < 2 * GB
    \/ (device = "mps" /\ si.available_memory_gb < 3 * GB)

\* the any([...]) list without its last entry
use_conservative_NoMpsTest(device, si, ps) ==
    \/ si.available_memory_gb < 2 * GB
    \/ IntensiveCount(ps) > 8
    \/ si.cpu_percent > 95
    \/ final_allocation_gb(device, si, ps) < 2 * GB

use_conservative(device, si, ps) ==
    \/ si.available_memory_gb < 2 * GB
    \/ IntensiveCount(ps) > 8
    \/ si.cpu_percent > 95
    \/ final_allocation_gb(device, si, ps) < 2 * GB
    \/ (device = "mps" /\ si.available_memory_gb < 3 * GB)

\* _calculate_resource_allocation: the plan, or the exception it raises
calculate_resource_allocation(device, si, ps) ==
    IF si.total_memory_gb = 0 THEN [kind |-> "ZeroDivisionError"]
    ELSE LET final == final_allocation_gb(device, si, ps)
             cons == use_conservative(device, si, ps)
         IN [kind |-> "plan",
             recommended_memory_gb |-> final,
             conservative_memory_gb |-> IF cons THEN Min2(final, 6 * GB) ELSE final,
             memory_fraction |-> memory_fraction(final, si.total_memory_gb),
             batch_size |-> IF cons THEN 2 ELSE 4,
             attention_heads |-> IF cons THEN 24 ELSE 32,
             hidden_size |-> IF cons THEN 3072 ELSE 4096,
             use_conservative |-> cons,
             safety_margin_gb |-> Times(si.total_memory_gb, 2, 10)]

\* ---- inputs of the detector -------------------------------------------
TotalChoicesGB == {0, 2, 8, 16, 100}
AvailableChoicesTenths == {0, 15, 20, 25, 30, 40, 60, 64, 80, 100, 300}
CpuChoices == {10, 95, 96}
MaxLarge == 6
IntensiveChoices == {0, 8, 9}

SystemInfos ==
    {[total_memory_gb |-> t * GB, available_memory_gb |-> a * Tenth, cpu_percent |-> c] :
        <<t, a, c>> \in {x \in TotalChoicesGB \X AvailableChoicesTenths \X CpuChoices :
                            x[2] * Tenth <= x[1] * GB}}

DeviceCatalogs == [DeviceTypes -> {[supported |-> TRUE], [supported |-> FALSE]}]

ProcessLists ==
    {DetectedProcesses(l, n) : <<l, n>> \in {0, 1, MaxLarge} \X IntensiveChoices}

\* ======================================================================
\* ResourceMonitor
\* ======================================================================

\* ResourceMonitor.__init__: self.thresholds
DefaultThresholds ==
    [memory_warning |-> 6 * GB, memory_critical |-> 3 * GB,
     cpu_warning |-> 80, cpu_critical |-> 90]

\* the else branch ("other devices") left out: the value is kept as it is
memory_warning_for_KeepOther(device, current) ==
    IF device = "mps" THEN 4 * GB
    ELSE IF device = "cpu" THEN 8 * GB
    ELSE current

\* _adjust_thresholds_for_device: the memory_warning assigned for the device
memory_warning_for(device, current) ==
    IF device = "mps" THEN 4 * GB
    ELSE IF device = "cpu" THEN 8 * GB
    ELSE 6 * GB

\* _adjust_thresholds_for_device: the memory_critical assigned for the device
memory_critical_for(device, current) ==
    IF device = "mps" THEN 2 * GB
    ELSE IF device = "cpu" THEN 4 * GB
    ELSE 3 * GB

\* self.thresholds[...] *= 1.2
Conservative(x) == Times(x, 12, 10)

\* _adjust_thresholds_for_device run from start to end with no other thread
\* in between (as in ResourceMonitor.__init__)
adjust_thresholds_for_device(th, device, conservative) ==
    LET w == memory_warning_for(device, th.memory_warning)
        c == memory_critical_for(device, th.memory_critical)
    IN [th EXCEPT !.memory_warning = IF conservative THEN Conservative(w) ELSE w,
                  !.memory_critical = IF conservative THEN Conservative(c) ELSE c]

\* ---- check_alerts ------------------------------------------------------

\* one key per resource, whatever the level
alert_key_IgnoresLevel(alert) == alert.resource_type \o "_warning"

\* f"{alert.resource_type.value}_{alert.level.value}"
alert_key(alert) == alert.resource_type \o "_" \o alert.level

Alert(level, resource_type, current_value, threshold, recommendation, t) ==
    [level |-> level, resource_type |-> resource_type,
     current_value |-> current_value, threshold |-> threshold,
     recommendation |-> recommendation, timestamp |-> t]

\* the two memory tests in the other order
MemoryAlerts_WarningFirst(th, m, t) ==
    IF m.memory_available_gb <= th.memory_warning THEN
        <<Alert("warning", "memory", m.memory_available_gb, th.memory_warning,
                "Close some applications for better performance", t)>>
    ELSE IF m.memory_available_gb <= th.memory_critical THEN
        <<Alert("critical", "memory", m.memory_available_gb, th.memory_critical,
                "Close applications immediately or restart system", t)>>
    ELSE <<>>

MemoryAlerts(th, m, t) ==
    IF m.memory_available_gb <= th.memory_critical THEN
        <<Alert("critical", "memory", m.memory_available_gb, th.memory_critical,
                "Close applications immediately or restart system", t)>>
    ELSE IF m.memory_available_gb <= th.memory_warning THEN
        <<Alert("warning", "memory", m.memory_available_gb, th.memory_warning,
                "Close some applications for better performance", t)>>
    ELSE <<>>

CpuAlerts(th, m, t) ==
    IF m.cpu_percent >= th.cpu_critical THEN
        <<Alert("critical", "cpu", m.cpu_percent, th.cpu_critical,
                "Close CPU-intensive applications immediately", t)>>
    ELSE IF m.cpu_percent >= th.cpu_warning THEN
        <<Alert("warning", "cpu", m.cpu_percent, th.cpu_warning,
                "Consider closing some applications", t)>>
    ELSE <<>>

\* psutil.disk_usage raising is swallowed (except Exception: pass)
DiskAlerts(th, m, t) ==
    IF ~m.disk_ok THEN <<>>
    ELSE IF m.disk_free_gb <= th.memory_critical THEN
        <<Alert("critical", "disk", m.disk_free_gb, th.memory_critical,
                "Free up disk space immediately to prevent crashes", t)>>
    ELSE IF m.disk_free_gb <= th.memory_warning THEN
        <<Alert("warning", "disk", m.disk_free_gb, th.memory_warning,
                "Consider freeing up disk space", t)>>
    ELSE <<>>

\* only with torch.cuda.is_available(); on mps nothing is compared
GpuAlerts(th, m, t) ==
    IF ~m.cuda_available THEN <<>>
    ELSE IF m.gpu_memory_available_gb <= th.memory_critical THEN
        <<Alert("critical", "gpu", m.gpu_memory_available_gb, th.memory_critical,
                "Close GPU-intensive applications or reduce model size", t)>>
    ELSE IF m.gpu_memory_available_gb <= th.memory_warning THEN
        <<Alert("warning", "gpu", m.gpu_memory_available_gb, th.memory_warning,
                "Consider closing GPU-intensive applications", t)>>
    ELSE <<>>

check_alerts(th, m, t) ==
    MemoryAlerts(th, m, t) \o CpuAlerts(th, m, t) \o DiskAlerts(th, m, t)
        \o GpuAlerts(th, m, t)

\* ---- _monitor_loop -----------------------------------------------------

\* the cooldown of _monitor_loop
AlertCooldown == 30

AlertKeys ==
    {r \o "_" \o l : <<r, l>> \in {"memory", "cpu", "disk", "gpu"} \X {"warning", "critical"}}

\* "alert_key not in last_alert_time" is modelled by the time Never
Never == -1
NoAlertTimes == [k \in AlertKeys |-> Never]

\* the cooldown test left out: every alert is sent
should_send_Always(last_alert_time, key, current_time) == TRUE

\* alert_key not in last_alert_time or
\* current_time - last_alert_time[alert_key] > 30.0
should_send(last_alert_time, key, current_time) ==
    \/ last_alert_time[key] = Never
    \/ current_time - last_alert_time[key] > AlertCooldown

\* what a callback does when it is called
CallbackKinds == {"console", "raising"}

catches_callback_error_Never(kind) == FALSE

\* try: callback(alert) / except Exception as e: print(...)
catches_callback_error(kind) == TRUE

\* the for loop gets to callback j: no earlier callback raised uncaught
CallbackReached(callbacks, j) ==
    \A k \in 1..(j - 1) :
        callbacks[k] = "raising" => catches_callback_error(callbacks[k])

\* for callback in self.alert_callbacks: try: callback(alert) except: print
CallbackCalls(callbacks, alert) ==
    SelectSeq([j \in 1..Len(callbacks) |->
                  [callback |-> j, kind |-> callbacks[j], key |-> alert_key(alert),
                   timestamp |-> alert.timestamp]],
              LAMBDA c : CallbackReached(callbacks, c.callback))

\* The for loop over the alerts of one tick, from the local state
\* st = [history, last, suppressed, delivered] of the loop.  suppressed
\* notes, per key, when the loop first held an alert back (the code only
\* skips it); nothing reads it but the properties.
RECURSIVE ProcessAlerts(_, _, _, _)
ProcessAlerts(alerts, st, callbacks, current_time) ==
    IF alerts = <<>> THEN st
    ELSE LET alert == Head(alerts)
             key == alert_key(alert)
             st2 == IF should_send(st.last, key, current_time)
                    THEN [st EXCEPT !.history = Append(@, alert),
                                    !.last = [@ EXCEPT ![key] = current_time],
                                    !.delivered = @ \o CallbackCalls(callbacks, alert)]
                    ELSE [st EXCEPT !.suppressed =
                             [@ EXCEPT ![key] = IF @ = Never THEN current_time ELSE @]]
         IN ProcessAlerts(Tail(alerts), st2, callbacks, current_time)

\* ---- the metrics a tick can sample --------------------------------------
Healthy ==
    [memory_available_gb |-> 20 * GB, cpu_percent |-> 10, disk_ok |-> TRUE,
     disk_free_gb |-> 100 * GB, cuda_available |-> FALSE,
     gpu_memory_available_gb |-> 0]

\* every resource at or beyond each critical threshold
Exhausted ==
    [memory_available_gb |-> 1 * GB, cpu_percent |-> 92, disk_ok |-> TRUE,
     disk_free_gb |-> 1 * GB, cuda_available |-> TRUE,
     gpu_memory_available_gb |-> 1 * GB]

\* memory and cpu between the warning and the critical threshold of most
\* threshold sets; the disk cannot be read
Strained ==
    [memory_available_gb |-> 45 * Tenth, cpu_percent |-> 85, disk_ok |-> FALSE,
     disk_free_gb |-> 0, cuda_available |-> TRUE,
     gpu_memory_available_gb |-> 45 * Tenth]

\* psutil raises: get_current_metrics, and with it check_alerts, raises
Unreadable == [Healthy EXCEPT !.memory_available_gb = -1]

Readable(m) == m.memory_available_gb >= 0

MetricSamples == {Healthy, Strained, Exhausted, Unreadable}

\* start_monitoring(interval): 5.0 by default
Intervals == {5}

\* one tick takes its sleep of interval seconds plus at most MaxJitter
MaxJitter == 1
MaxTime == 32
MaxLoops == 2
MaxCallbacks == 2
MaxAdjustCalls == 3
MaxMetricChanges == 1
MaxSwings == 2

\* self.monitor_thread.join(timeout=1.0)
JoinTimeout == 1

loop_continues_Always(flag) == TRUE

\* while self.monitoring:
loop_continues(flag) == flag

NewLoop(interval) ==
    [pc |-> "head", interval |-> interval, wake_at |-> 0, alerts |-> <<>>,
     last_alert_time |-> NoAlertTimes, suppressed |-> NoAlertTimes]

\* ======================================================================
\* OptimizedLlamaModel (optimized_resource_server.py): loading
\* ======================================================================

\* the threads that call load_model
MaxCallers == 2
Callers == 1..MaxCallers

\* What get_model_path() points at, and what the imports at the top of the
\* module found
ModelArtifacts == {"gguf_file", "dir_with_gguf", "dir_without_gguf", "other_file"}

ModelFiles ==
    [exists : BOOLEAN, artifact : ModelArtifacts,
     llama_cpp_available : BOOLEAN, pytorch_fallback_exists : BOOLEAN]

\* detect_model_type(model_path)
detect_model_type(files) ==
    IF files.artifact \in {"dir_with_gguf", "dir_without_gguf"}
    THEN IF files.artifact = "dir_with_gguf" THEN "gguf" ELSE "pytorch"
    ELSE IF files.artifact = "gguf_file" THEN "gguf" ELSE "pytorch"

already_loaded_NeverSeen(loaded) == FALSE

\* if self.is_loaded: return     (read under load_lock)
already_loaded(loaded) == loaded

\* which loader the try block of load_model calls first; "ImportError" when
\* it raises before calling any
first_loader(type, files) ==
    IF type = "gguf"
    THEN IF files.llama_cpp_available THEN "_load_gguf_model"
         ELSE IF files.pytorch_fallback_exists THEN "_load_pytorch_model"
         ELSE "ImportError"
    ELSE "_load_pytorch_model"

\* self.model_type once the first loader has returned
loaded_model_type(type, files) ==
    IF type = "gguf" /\ ~files.llama_cpp_available THEN "pytorch" ELSE type

takes_cpu_fallback_AnyFormat(type, dev) == dev = "mps"

takes_cpu_fallback_AnyDevice(type, dev) == type = "pytorch"

\* if self.model_type == "pytorch" and self.device == "mps"
takes_cpu_fallback(type, dev) == type = "pytorch" /\ dev = "mps"

\* min(8.0, available_memory_gb * 0.6)
fallback_memory_gb(si) == Min2(8 * GB, Times(si.available_memory_gb, 6, 10))

LoadErrors == {"FileNotFoundError", "ImportError", "LoadError", "RuntimeError"}

LoadCall(t, fn, dev, ok) == [thread |-> t, loader |-> fn, device |-> dev, ok |-> ok]

\* ======================================================================
\* OptimizedLlamaModel: generate_non_stream
\* ======================================================================

max_attempts_Two == 3 - 1

\* max_attempts = 3
max_attempts == 3

\* Temperatures are in hundredths, token budgets in tenths of a token (the
\* retry arithmetic of the code is in floats)
TemperatureCap == 150
MaxTokensCap == 2000

\* the retry temperature without its cap
current_temperature_NoCap(temperature, k) ==
    IF k > 0 THEN (temperature * (10 + 2 * k)) \div 10
    ELSE temperature

\* the retry budget scaled by 1 - 0.3 * attempt
current_max_tokens_Narrowing(max_tokens, k) ==
    IF k > 0 THEN Min2(max_tokens * (10 - 3 * k), MaxTokensCap)
    ELSE max_tokens * 10

\* current_temperature of attempt k
current_temperature(temperature, k) ==
    IF k > 0 THEN Min2((temperature * (10 + 2 * k)) \div 10, TemperatureCap)
    ELSE temperature

\* current_max_tokens of attempt k, in tenths
current_max_tokens(max_tokens, k) ==
    IF k > 0 THEN Min2(max_tokens * (10 + 3 * k), MaxTokensCap)
    ELSE max_tokens * 10

\* Text is a sequence of pieces; these pieces are whitespace
Whitespace == {" ", "\n"}

RECURSIVE LStrip(_)
LStrip(text) ==
    IF text # <<>> /\ Head(text) \in Whitespace THEN LStrip(Tail(text)) ELSE text

RECURSIVE RStrip(_)
RStrip(text) ==
    IF text # <<>> /\ text[Len(text)] \in Whitespace
    THEN RStrip(SubSeq(text, 1, Len(text) - 1))
    ELSE text

\* str.strip()
Strip(text) == RStrip(LStrip(text))

problematic_responses ==
    {<<>>, <<"I am [Your Name]">>, <<"I will be happy to help you">>,
     <<"Whether it's a specific topic">>}

special_tokens == {<<"<|eot_id|>">>, <<"<|end_of_text|>">>}

\* _validate_response(response)
validate_response(response) ==
    IF response = <<>> \/ Len(Strip(response)) < 1 THEN FALSE
    ELSE IF Strip(response) \in problematic_responses THEN FALSE
    ELSE IF Strip(response) \in special_tokens THEN FALSE
    ELSE TRUE

\* A prompt is its lines; of a line the model keeps what the fallback reads:
\* whether it starts with 'User:' and whether it holds 'hello', 'hi' or '?'
PromptLine(user, greeting, question) ==
    [user |-> user, greeting |-> greeting, question |-> question]

IsUserLine(line) == line.user

FallbackGreeting == <<"Hello! I'm here to help you. How can I assist you today?">>
FallbackQuestion ==
    <<"I understand your question. Let me help you with that. Could you please provide more details?">>
FallbackStatement ==
    <<"I see what you're asking about. Let me provide you with a helpful response. What specific information are you looking for?">>
FallbackNoUser ==
    <<"I'm here to help! Please let me know what you'd like assistance with.">>

FallbackTemplates ==
    {FallbackGreeting, FallbackQuestion, FallbackStatement, FallbackNoUser}

\* _generate_fallback_response(prompt)
generate_fallback_response(prompt) ==
    LET user_messages == SelectSeq(prompt, IsUserLine)
    IN IF user_messages # <<>>
       THEN LET last_user_message == user_messages[Len(user_messages)]
            IN IF last_user_message.greeting THEN FallbackGreeting
               ELSE IF last_user_message.question THEN FallbackQuestion
               ELSE FallbackStatement
       ELSE FallbackNoUser

\* what one pass through the try block met: the runtime returned a text, or
\* something in it raised
Generated(text) == [kind |-> "text", text |-> text]
Raised == [kind |-> "raise", text |-> <<>>]

\* ---- inputs of generate_non_stream ------------------------------------
GeneratedTexts ==
    {<<>>, <<" ">>, <<" ", "4", "\n">>, <<"I am [Your Name]", "\n">>,
     <<"<|eot_id|>">>, <<"I am [Your Name]", " ", "Ada">>}

AttemptOutcomes == {Generated(x) : x \in GeneratedTexts} \cup {Raised}

Prompts ==
    {<<PromptLine(FALSE, FALSE, FALSE)>>,
     <<PromptLine(FALSE, TRUE, FALSE), PromptLine(TRUE, TRUE, FALSE)>>,
     <<PromptLine(TRUE, TRUE, FALSE), PromptLine(FALSE, FALSE, TRUE),
       PromptLine(TRUE, FALSE, TRUE)>>,
     <<PromptLine(TRUE, FALSE, TRUE), PromptLine(TRUE, FALSE, FALSE)>>}

\* ChatCompletionRequest: 0.0 <= temperature <= 2.0, 1 <= max_tokens <= 32000
TemperatureChoices == {0, 70, 130, 200}
MaxTokensChoices == {1, 100, 160, 500}

Requests ==
    [prompt : Prompts, max_tokens : MaxTokensChoices, temperature : TemperatureChoices]

NoRequest == [prompt |-> <<>>, max_tokens |-> 0, temperature |-> 0]
NoResult == [response |-> <<>>, attempts |-> 0, fallback |-> FALSE]
\* ======================================================================
\* DeviceDetector: the system probe and the diagnostic configuration
\* ======================================================================

\* The three psutil reads of _get_system_info: virtual_memory(),
\* cpu_percent(interval=1), disk_usage('/'); TRUE when the read returns
ProbeReads == {"memory", "cpu", "disk"}
Probes == [ProbeReads -> BOOLEAN]
AllReadsOk == [r \in ProbeReads |-> TRUE]

NoSystemInfo == [total_memory_gb |-> 0, available_memory_gb |-> 0, cpu_percent |-> 0]

\* _get_system_info(): the snapshot, or the exception of the first read
\* that raises (no read is guarded)
get_system_info(reads, snapshot) ==
    IF ~reads["memory"] \/ ~reads["cpu"] \/ ~reads["disk"]
    THEN [kind |-> "raised", info |-> NoSystemInfo]
    ELSE [kind |-> "info", info |-> snapshot]

\* The fields of the ResourceAllocation dataclass, by runtime type
FloatFields == {"recommended_memory_gb", "conservative_memory_gb",
                "memory_fraction", "safety_margin_gb"}
IntFields == {"batch_size", "attention_heads", "hidden_size"}
BoolFields == {"use_conservative"}
PlanFields == FloatFields \cup IntFields \cup BoolFields

\* dataclasses.asdict(self.resource_allocation)
asdict(plan) == [f \in PlanFields |-> plan[f]]

\* generate_config(): the keys a reader of the plan uses (device_info,
\* other_processes and recommendations are written next to them)
generate_config(dev, plan, si) ==
    [device |-> dev, resource_allocation |-> asdict(plan), system_info |-> si]

\* JSON values as json.dump writes them
JsonString(s) == [json |-> "string", text |-> s]
JsonTrue == [json |-> "true"]
JsonFalse == [json |-> "false"]
JsonInt(n) == [json |-> "number", fraction |-> FALSE, digits |-> n]
JsonFloat(x) == [json |-> "number", fraction |-> TRUE, digits |-> x]

json_float_OneDecimal(f, x) ==
    JsonFloat(IF f = "memory_fraction" THEN x ELSE (x \div Tenth) * Tenth)

\* json encodes a float by float.__repr__, the shortest digits that read
\* back as the same float
json_float(f, x) == JsonFloat(x)

\* the JSON encoder on the field f of the plan
json_encode(f, v) ==
    IF f \in BoolFields THEN (IF v THEN JsonTrue ELSE JsonFalse)
    ELSE IF f \in IntFields THEN JsonInt(v)
    ELSE json_float(f, v)

\* json.dump(config, f, indent=2)
json_dump(config) ==
    [json |-> "object",
     device |-> JsonString(config.device),
     resource_allocation |->
         [f \in PlanFields |-> json_encode(f, config.resource_allocation[f])],
     system_info |->
         [f \in DOMAIN config.system_info |-> JsonFloat(config.system_info[f])]]

NoFile == [json |-> "absent"]

\* ---- reading the document back (no reader is part of the sources) -----
json_decode(j) ==
    IF j.json = "true" THEN TRUE
    ELSE IF j.json = "false" THEN FALSE
    ELSE j.digits

\* the plan and the device a reader builds from the document
parse_config(doc) ==
    [device |-> doc.device.text,
     plan |-> [f \in PlanFields |-> json_decode(doc.resource_allocation[f])]]

NoConfig == [device |-> "", plan |-> <<>>]

\* Nothing is probed, written or read (the detector got its snapshot)
DiagUnused ==
    /\ probe = AllReadsOk
    /\ config_file = NoFile
    /\ parsed_config = NoConfig
\* DeviceDetector.__init__ up to and including _detect_other_processes
DetInit ==
    /\ system_info \in SystemInfos
    /\ devices \in DeviceCatalogs
    /\ other_processes \in ProcessLists
    /\ best_device = ""
    /\ resource_allocation = NoPlan
    /\ dpc = "select"

\* self.best_device = self._select_best_device()
SelectBestDevice ==
    /\ dpc = "select"
    /\ LET d == select_best_device(system_info, devices) IN
       IF d = "ZeroDivisionError"
       THEN /\ dpc' = "raised"
            /\ UNCHANGED best_device
       ELSE /\ best_device' = d
            /\ dpc' = "allocate"
    /\ UNCHANGED <<system_info, devices, other_processes, resource_allocation>>
    /\ UNCHANGED <<diagVars, monVars, srvVars>>

\* self.resource_allocation = self._calculate_resource_allocation()
CalculateResourceAllocation ==
    /\ dpc = "allocate"
    /\ LET r == calculate_resource_allocation(best_device, system_info, other_processes) IN
       IF r.kind = "plan"
       THEN /\ resource_allocation' = r
            /\ dpc' = "done"
       ELSE /\ dpc' = "raised"
            /\ UNCHANGED resource_allocation
    /\ UNCHANGED <<system_info, devices, other_processes, best_device>>
    /\ UNCHANGED <<diagVars, monVars, srvVars>>



\* DeviceDetector.__init__ before its first line, with what the psutil
\* reads will do
ProbeInit ==
    /\ probe \in Probes
    /\ system_info = NoSystemInfo
    /\ devices \in DeviceCatalogs
    /\ other_processes \in ProcessLists
    /\ best_device = ""
    /\ resource_allocation = NoPlan
    /\ dpc = "probe"
    /\ config_file = NoFile
    /\ parsed_config = NoConfig

\* self.system_info = self._get_system_info()
GetSystemInfo(snapshot) ==
    /\ dpc = "probe"
    /\ LET r == get_system_info(probe, snapshot) IN
       IF r.kind = "raised"
       THEN /\ dpc' = "raised"
            /\ UNCHANGED system_info
       ELSE /\ system_info' = r.info
            /\ dpc' = "select"
    /\ UNCHANGED <<devices, other_processes, best_device, resource_allocation>>
    /\ UNCHANGED <<diagVars, monVars, srvVars>>

\* main(): config = detector.generate_config(); json.dump(config, f)
SaveConfig ==
    /\ dpc = "done"
    /\ config_file.json = "absent"
    /\ config_file' =
           json_dump(generate_config(best_device, resource_allocation, system_info))
    /\ UNCHANGED <<probe, parsed_config>>
    /\ UNCHANGED <<detVars, monVars, srvVars>>

\* device_config.json is parsed back
ReadConfig ==
    /\ config_file.json = "object"
    /\ parsed_config.device = ""
    /\ parsed_config' = parse_config(config_file)
    /\ UNCHANGED <<probe, config_file>>
    /\ UNCHANGED <<detVars, monVars, srvVars>>
\* ======================================================================
\* ResourceMonitor: operations
\* ======================================================================

\* The detectors the monitor is built with: one of each selected device,
\* with and without conservative allocation.
MonSystemInfos ==
    {[total_memory_gb |-> 16 * GB, available_memory_gb |-> 8 * GB, cpu_percent |-> c] :
        c \in {10, 96}}

MonDeviceCatalogs ==
    {[d \in DeviceTypes |-> [supported |-> d \in {g, "cpu"}]] : g \in DeviceTypes}

\* A DeviceDetector whose __init__ has run to its end
DetectorDone(infos, catalogs) ==
    /\ system_info \in infos
    /\ devices \in catalogs
    /\ other_processes = <<>>
    /\ best_device = select_best_device(system_info, devices)
    /\ resource_allocation =
           calculate_resource_allocation(best_device, system_info, other_processes)
    /\ dpc = "done"

\* ResourceMonitor.__init__(device_detector=...), detector given or None
MonitorNew(with_detector) ==
    /\ has_detector = with_detector
    /\ thresholds =
           IF with_detector
           THEN adjust_thresholds_for_device(DefaultThresholds, best_device,
                                             resource_allocation.use_conservative)
           ELSE DefaultThresholds
    /\ apc = "idle"
    /\ adjust_calls = IF with_detector THEN 1 ELSE 0
    /\ observed = thresholds
    /\ monitoring = FALSE
    /\ joining = Never
    /\ loops = <<>>
    /\ now = 0
    /\ metrics \in MetricSamples
    /\ metric_changes = 0
    /\ alert_history = <<>>
    /\ delivered = <<>>

\* get_global_monitor_with_device: attach the detector when there is none,
\* then force_threshold_adjustment()
GetGlobalMonitorWithDevice ==
    /\ apc = "idle"
    /\ ~has_detector
    /\ dpc = "done"
    /\ has_detector' = TRUE
    /\ apc' = "base_warning"
    /\ UNCHANGED <<thresholds, adjust_calls, observed, loopVars, detVars, diagVars, srvVars>>

\* force_threshold_adjustment: enters _adjust_thresholds_for_device when a
\* detector is attached
ForceThresholdAdjustment ==
    /\ apc = "idle"
    /\ has_detector
    /\ adjust_calls < MaxAdjustCalls
    /\ apc' = "base_warning"
    /\ UNCHANGED <<has_detector, thresholds, adjust_calls, observed, loopVars, detVars, diagVars, srvVars>>

\* _adjust_thresholds_for_device, one assignment to self.thresholds at a time
AdjustStep ==
    /\ apc # "idle"
    /\ \/ /\ apc = "base_warning"
          /\ thresholds' = [thresholds EXCEPT
                 !.memory_warning = memory_warning_for(best_device, @)]
          /\ apc' = "base_critical"
          /\ UNCHANGED adjust_calls
       \/ /\ apc = "base_critical"
          /\ thresholds' = [thresholds EXCEPT
                 !.memory_critical = memory_critical_for(best_device, @)]
          /\ IF resource_allocation.use_conservative
             THEN apc' = "mul_warning" /\ UNCHANGED adjust_calls
             ELSE apc' = "idle" /\ adjust_calls' = adjust_calls + 1
       \/ /\ apc = "mul_warning"
          /\ thresholds' = [thresholds EXCEPT !.memory_warning = Conservative(@)]
          /\ apc' = "mul_critical"
          /\ UNCHANGED adjust_calls
       \/ /\ apc = "mul_critical"
          /\ thresholds' = [thresholds EXCEPT !.memory_critical = Conservative(@)]
          /\ apc' = "idle"
          /\ adjust_calls' = adjust_calls + 1
    /\ UNCHANGED <<has_detector, observed, loopVars, detVars, diagVars, srvVars>>

\* get_current_thresholds(): return self.thresholds.copy(), at any moment
GetCurrentThresholds ==
    /\ observed' = thresholds
    /\ UNCHANGED <<has_detector, thresholds, apc, adjust_calls, loopVars, detVars, diagVars, srvVars>>

\* add_alert_callback
AddAlertCallback(kind) ==
    /\ Len(alert_callbacks) < MaxCallbacks
    /\ alert_callbacks' = Append(alert_callbacks, kind)
    /\ UNCHANGED <<monitoring, loops, now, alert_history, delivered, envVars, thrVars, joining, detVars, diagVars, srvVars>>

\* start_monitoring(interval); calls on one monitor come one after another
StartMonitoring(interval) ==
    /\ Len(loops) < MaxLoops
    /\ joining = Never
    /\ IF monitoring
       THEN UNCHANGED <<monitoring, loops>>
       ELSE /\ monitoring' = TRUE
            /\ loops' = Append(loops, NewLoop(interval))
    /\ UNCHANGED <<now, alert_history, alert_callbacks, delivered, envVars, thrVars, joining, detVars, diagVars, srvVars>>

\* stop_monitoring: clears the flag and, when a thread was ever started,
\* enters self.monitor_thread.join(timeout=1.0)
StopMonitoring ==
    /\ joining = Never
    /\ monitoring' = FALSE
    /\ joining' = IF loops # <<>> THEN now + JoinTimeout ELSE Never
    /\ UNCHANGED <<loops, now, alert_history, alert_callbacks, delivered, envVars, thrVars, detVars, diagVars, srvVars>>

\* join(timeout=1.0) returns: the thread has ended or the timeout is over
JoinReturns ==
    /\ joining # Never
    /\ loops[Len(loops)].pc = "exited" \/ now >= joining
    /\ joining' = Never
    /\ UNCHANGED <<monitoring, loops, now, alert_history, alert_callbacks, delivered, envVars, thrVars, detVars, diagVars, srvVars>>

\* while self.monitoring:
LoopHead(i) ==
    /\ loops[i].pc = "head"
    /\ loops' = [loops EXCEPT ![i].pc = IF loop_continues(monitoring) THEN "check"
                                          ELSE "exited"]
    /\ UNCHANGED <<monitoring, now, alert_history, alert_callbacks, delivered,
                   envVars, thrVars, joining, detVars, diagVars, srvVars>>

\* alerts = self.check_alerts()
LoopCheckAlerts(i) ==
    /\ loops[i].pc = "check"
    /\ Readable(metrics)
    /\ loops' = [loops EXCEPT ![i].pc = "process",
                              ![i].alerts = check_alerts(thresholds, metrics, now)]
    /\ UNCHANGED <<monitoring, now, alert_history, alert_callbacks, delivered,
                   envVars, thrVars, joining, detVars, diagVars, srvVars>>

\* check_alerts raises (psutil): except Exception -> print, time.sleep(interval)
LoopCheckRaises(i) ==
    /\ loops[i].pc = "check"
    /\ ~Readable(metrics)
    /\ loops' = [loops EXCEPT ![i].pc = "sleep",
                              ![i].wake_at = now + loops[i].interval]
    /\ UNCHANGED <<monitoring, now, alert_history, alert_callbacks, delivered,
                   envVars, thrVars, joining, detVars, diagVars, srvVars>>

\* for alert in alerts: ... ; time.sleep(interval)
LoopProcessAlerts(i) ==
    /\ loops[i].pc = "process"
    /\ LET st == ProcessAlerts(loops[i].alerts,
                     [history |-> alert_history, last |-> loops[i].last_alert_time,
                      suppressed |-> loops[i].suppressed, delivered |-> delivered],
                     alert_callbacks, now)
       IN /\ alert_history' = st.history
          /\ delivered' = st.delivered
          /\ loops' = [loops EXCEPT ![i].pc = "sleep",
                                    ![i].alerts = <<>>,
                                    ![i].last_alert_time = st.last,
                                    ![i].suppressed = st.suppressed,
                                    ![i].wake_at = now + loops[i].interval]
    /\ UNCHANGED <<monitoring, now, alert_callbacks, envVars, thrVars, joining, detVars, diagVars, srvVars>>

\* time.sleep(interval) returns
LoopWake(i) ==
    /\ loops[i].pc = "sleep"
    /\ now >= loops[i].wake_at
    /\ loops' = [loops EXCEPT ![i].pc = "head"]
    /\ UNCHANGED <<monitoring, now, alert_history, alert_callbacks, delivered,
                   envVars, thrVars, joining, detVars, diagVars, srvVars>>

\* One second passes.  Time is counted from the first start_monitoring; a
\* loop computes in no time and oversleeps by at most MaxJitter.
Tick ==
    /\ now < MaxTime
    /\ loops # <<>>
    /\ \A i \in 1..Len(loops) :
           \/ loops[i].pc = "exited"
           \/ loops[i].pc = "sleep" /\ now < loops[i].wake_at + MaxJitter
    /\ joining = Never \/ now < joining
    /\ apc = "idle"
    /\ now' = now + 1
    /\ UNCHANGED <<monitoring, loops, alert_history, alert_callbacks, delivered,
                   envVars, thrVars, joining, detVars, diagVars, srvVars>>

\* The system's load changes: psutil and torch report other values from now on
MetricsChange(m) ==
    /\ metric_changes < MaxMetricChanges
    /\ m # metrics
    /\ metrics' = m
    /\ metric_changes' = metric_changes + 1
    /\ UNCHANGED <<monitoring, loops, now, alert_history, alert_callbacks, delivered,
                   thrVars, joining, detVars, diagVars, srvVars>>


\* The load swings between strained and exhausted: psutil and torch report
\* the other values from now on
LoadSwings(m) ==
    /\ metric_changes < MaxSwings
    /\ m # metrics
    /\ metrics' = m
    /\ metric_changes' = metric_changes + 1
    /\ UNCHANGED <<monitoring, loops, now, alert_history, alert_callbacks, delivered,
                   thrVars, joining, detVars, diagVars, srvVars>>
\* ======================================================================
\* OptimizedLlamaModel: actions
\* ======================================================================

\* No generate_non_stream call is in progress
GenIdle ==
    /\ request = NoRequest
    /\ gpc = "idle"
    /\ attempt = 0
    /\ outcomes = <<>>
    /\ result = NoResult

\* No OptimizedLlamaModel has been constructed
LoaderUnbuilt ==
    /\ self_device = ""
    /\ is_loaded = FALSE
    /\ load_lock = {}
    /\ model_type = "None"
    /\ max_memory_gb = 0
    /\ use_conservative_settings = FALSE
    /\ batch_size = 0
    /\ num_attention_heads = 0
    /\ hidden_size = 0
    /\ model_files = [exists |-> FALSE, artifact |-> "other_file",
                      llama_cpp_available |-> FALSE,
                      pytorch_fallback_exists |-> FALSE]
    /\ lpc = [t \in Callers |-> "idle"]
    /\ loads = <<>>
    /\ waited = {}

ServerUnbuilt == LoaderUnbuilt /\ GenIdle

\* OptimizedLlamaModel.__init__: the fields of the loader
LoaderNew ==
    /\ self_device = best_device
    /\ is_loaded = FALSE
    /\ load_lock = {}
    /\ model_type = "None"
    /\ max_memory_gb = resource_allocation.recommended_memory_gb
    /\ use_conservative_settings = resource_allocation.use_conservative
    /\ batch_size = resource_allocation.batch_size
    /\ num_attention_heads = resource_allocation.attention_heads
    /\ hidden_size = resource_allocation.hidden_size
    /\ lpc = [t \in Callers |-> "idle"]
    /\ loads = <<>>
    /\ waited = {}

\* OptimizedLlamaModel.__init__: the global monitor it fetches with its
\* detector, gives its callback to and starts with interval 10.0
LoaderMonitor ==
    /\ has_detector = TRUE
    /\ thresholds = adjust_thresholds_for_device(DefaultThresholds, best_device,
                                                 resource_allocation.use_conservative)
    /\ apc = "idle"
    /\ adjust_calls = 1
    /\ observed = thresholds
    /\ monitoring = TRUE
    /\ joining = Never
    /\ loops = <<NewLoop(10)>>
    /\ now = 0
    /\ metrics = Healthy
    /\ metric_changes = 0
    /\ alert_history = <<>>
    /\ alert_callbacks = <<"handle_resource_alert">>
    /\ delivered = <<>>

Release(t) == load_lock' = load_lock \ {t}

\* load_model: `with self.load_lock:` is reached
LoadModelEnter(t) ==
    /\ lpc[t] = "idle"
    /\ IF load_lock = {}
       THEN /\ load_lock' = {t}
            /\ lpc' = [lpc EXCEPT ![t] = "check"]
            /\ UNCHANGED waited
       ELSE /\ lpc' = [lpc EXCEPT ![t] = "blocked"]
            /\ waited' = waited \cup {t}
            /\ UNCHANGED load_lock
    /\ UNCHANGED <<self_device, is_loaded, model_type, max_memory_gb,
                   use_conservative_settings, batch_size, num_attention_heads,
                   hidden_size, model_files, loads>>
    /\ UNCHANGED <<detVars, diagVars, monVars, genVars>>

\* load_model: the blocked thread gets load_lock
LockAcquired(t) ==
    /\ lpc[t] = "blocked"
    /\ load_lock = {}
    /\ load_lock' = {t}
    /\ lpc' = [lpc EXCEPT ![t] = "check"]
    /\ UNCHANGED <<self_device, is_loaded, model_type, max_memory_gb,
                   use_conservative_settings, batch_size, num_attention_heads,
                   hidden_size, model_files, loads, waited>>
    /\ UNCHANGED <<detVars, diagVars, monVars, genVars>>

\* load_model, from the is_loaded test to the try block
LoadModelCheck(t) ==
    /\ lpc[t] = "check"
    /\ IF already_loaded(is_loaded)
       THEN /\ Release(t)
            /\ lpc' = [lpc EXCEPT ![t] = "returned"]
            /\ UNCHANGED <<model_type, max_memory_gb, use_conservative_settings>>
       ELSE IF ~model_files.exists
       THEN /\ Release(t)
            /\ lpc' = [lpc EXCEPT ![t] = "FileNotFoundError"]
            /\ UNCHANGED <<model_type, max_memory_gb, use_conservative_settings>>
       ELSE /\ model_type' = detect_model_type(model_files)
            /\ max_memory_gb' = resource_allocation.recommended_memory_gb
            /\ use_conservative_settings' = resource_allocation.use_conservative
            /\ lpc' = [lpc EXCEPT ![t] = "load"]
            /\ UNCHANGED load_lock
    /\ UNCHANGED <<self_device, is_loaded, batch_size, num_attention_heads,
                   hidden_size, model_files, loads, waited>>
    /\ UNCHANGED <<detVars, diagVars, monVars, genVars>>

\* load_model: the try block and the head of its except clause; ok says
\* whether the loader it calls returns or raises
LoadModelTry(t, ok) ==
    /\ lpc[t] = "load"
    /\ LET fn == first_loader(model_type, model_files)
       IN IF fn = "ImportError"
          THEN /\ ok = FALSE
               /\ Release(t)
               /\ lpc' = [lpc EXCEPT ![t] = "ImportError"]
               /\ UNCHANGED <<self_device, is_loaded, model_type, max_memory_gb,
                              use_conservative_settings, loads>>
          ELSE /\ loads' = Append(loads, LoadCall(t, fn, self_device, ok))
               /\ IF ok
                  THEN /\ model_type' = loaded_model_type(model_type, model_files)
                       /\ is_loaded' = TRUE
                       /\ Release(t)
                       /\ lpc' = [lpc EXCEPT ![t] = "returned"]
                       /\ UNCHANGED <<self_device, max_memory_gb,
                                      use_conservative_settings>>
                  ELSE IF takes_cpu_fallback(model_type, self_device)
                  THEN /\ self_device' = "cpu"
                       /\ max_memory_gb' = fallback_memory_gb(system_info)
                       /\ use_conservative_settings' = TRUE
                       /\ lpc' = [lpc EXCEPT ![t] = "fallback"]
                       /\ UNCHANGED <<is_loaded, model_type, load_lock>>
                  ELSE /\ Release(t)
                       /\ lpc' = [lpc EXCEPT ![t] = "LoadError"]
                       /\ UNCHANGED <<self_device, is_loaded, model_type,
                                      max_memory_gb, use_conservative_settings>>
    /\ UNCHANGED <<batch_size, num_attention_heads, hidden_size, model_files,
                   waited>>
    /\ UNCHANGED <<detVars, diagVars, monVars, genVars>>

\* load_model: the cpu fallback, _load_pytorch_model once more
LoadModelFallback(t, ok) ==
    /\ lpc[t] = "fallback"
    /\ loads' = Append(loads, LoadCall(t, "_load_pytorch_model", self_device, ok))
    /\ is_loaded' = ok
    /\ lpc' = [lpc EXCEPT ![t] = IF ok THEN "returned" ELSE "RuntimeError"]
    /\ Release(t)
    /\ UNCHANGED <<self_device, model_type, max_memory_gb, use_conservative_settings,
                   batch_size, num_attention_heads, hidden_size, model_files,
                   waited>>
    /\ UNCHANGED <<detVars, diagVars, monVars, genVars>>

\* generate_non_stream(prompt, max_tokens, temperature) is called on a
\* loaded model and reaches its for loop
GenerateNonStream ==
    /\ gpc = "idle"
    /\ is_loaded
    /\ gpc' = "attempt"
    /\ attempt' = 0
    /\ UNCHANGED <<request, outcomes, result>>
    /\ UNCHANGED <<detVars, diagVars, monVars, loaderVars>>

\* One pass of `for attempt in range(max_attempts)`: the runtime returns
\* a text or something in the try block raises
GenerationAttempt(out) ==
    /\ gpc = "attempt"
    /\ outcomes' = Append(outcomes,
           [attempt |-> attempt,
            temperature |-> current_temperature(request.temperature, attempt),
            max_tokens |-> current_max_tokens(request.max_tokens, attempt),
            outcome |-> out])
    /\ IF out.kind = "raise"
       THEN IF attempt < max_attempts - 1
            THEN attempt' = attempt + 1 /\ UNCHANGED <<gpc, result>>
            ELSE gpc' = "raised" /\ UNCHANGED <<attempt, result>>
       ELSE LET response == Strip(out.text)
            IN IF validate_response(response)
               THEN /\ result' = [response |-> response, attempts |-> attempt + 1,
                                  fallback |-> FALSE]
                    /\ gpc' = "returned"
                    /\ UNCHANGED attempt
               ELSE IF attempt < max_attempts - 1
                    THEN attempt' = attempt + 1 /\ UNCHANGED <<gpc, result>>
                    ELSE /\ result' =
                                [response |-> generate_fallback_response(request.prompt),
                                 attempts |-> max_attempts, fallback |-> TRUE]
                         /\ gpc' = "returned"
                         /\ UNCHANGED attempt
    /\ UNCHANGED request
    /\ UNCHANGED <<detVars, diagVars, monVars, loaderVars>>
\* ======================================================================
\* Specifications
\* ======================================================================

\* A ResourceMonitor nobody uses (the detector is studied on its own)
MonitorUnused == MonitorNew(FALSE) /\ metrics = Healthy /\ alert_callbacks = <<>>

\* a DeviceDetector under construction, nothing else built
DetectorInit == DetInit /\ DiagUnused /\ MonitorUnused /\ ServerUnbuilt

DetNext == SelectBestDevice \/ CalculateResourceAllocation

\* DeviceDetector.__init__ on every input
SpecDetector == DetectorInit /\ [][DetNext]_vars

ThrInit ==
    /\ DiagUnused
    /\ DetectorDone(MonSystemInfos, MonDeviceCatalogs)
    /\ \E d \in BOOLEAN : MonitorNew(d)
    /\ metrics = Healthy
    /\ alert_callbacks = <<>>
    /\ ServerUnbuilt

ThrNext ==
    \/ GetGlobalMonitorWithDevice
    \/ ForceThresholdAdjustment
    \/ AdjustStep

\* The threshold set of a ResourceMonitor under repeated adjustment, for
\* every selected device and conservative flag
SpecThresholds == ThrInit /\ [][ThrNext]_vars

\* the callbacks registered (add_alert_callback) before monitoring starts
CallbackLists == {<<>>, <<"console">>, <<"raising", "console">>}

MonInit ==
    /\ DiagUnused
    /\ DetectorDone({s \in MonSystemInfos : s.cpu_percent > 95},
                    {c \in MonDeviceCatalogs : c["mps"].supported})
    /\ \E d \in BOOLEAN : MonitorNew(d)
    /\ alert_callbacks \in CallbackLists
    /\ ServerUnbuilt

MonNext ==
    \/ \E interval \in Intervals : StartMonitoring(interval)
    \/ \E i \in 1..Len(loops) :
           \/ LoopHead(i)
           \/ LoopCheckAlerts(i)
           \/ LoopCheckRaises(i)
           \/ LoopProcessAlerts(i)
           \/ LoopWake(i)
    \/ \E m \in MetricSamples : MetricsChange(m)
    \/ Tick

\* The monitor loops of a ResourceMonitor: start, stop, ticks, alerts
SpecMonitor == MonInit /\ [][MonNext]_vars


LoaderInit ==
    /\ DiagUnused
    /\ DetectorDone(MonSystemInfos, MonDeviceCatalogs)
    /\ LoaderMonitor
    /\ LoaderNew
    /\ model_files \in ModelFiles
    /\ GenIdle

LoaderNext ==
    \E t \in Callers :
        \/ LoadModelEnter(t)
        \/ LockAcquired(t)
        \/ LoadModelCheck(t)
        \/ \E ok \in BOOLEAN : LoadModelTry(t, ok)
        \/ \E ok \in BOOLEAN : LoadModelFallback(t, ok)

\* Threads calling load_model on a freshly constructed OptimizedLlamaModel,
\* for every selected device, model artifact and loader outcome
SpecLoader == LoaderInit /\ [][LoaderNext]_vars

\* An OptimizedLlamaModel whose first load_model call, by thread 1, succeeded
LoaderLoaded ==
    /\ self_device = best_device
    /\ is_loaded = TRUE
    /\ load_lock = {}
    /\ model_files \in {f \in ModelFiles :
                            /\ f.exists /\ f.llama_cpp_available
                            /\ ~f.pytorch_fallback_exists
                            /\ f.artifact \in {"gguf_file", "dir_without_gguf"}}
    /\ model_type = detect_model_type(model_files)
    /\ max_memory_gb = resource_allocation.recommended_memory_gb
    /\ use_conservative_settings = resource_allocation.use_conservative
    /\ batch_size = resource_allocation.batch_size
    /\ num_attention_heads = resource_allocation.attention_heads
    /\ hidden_size = resource_allocation.hidden_size
    /\ lpc = [t \in Callers |-> IF t = 1 THEN "returned" ELSE "idle"]
    /\ loads = <<LoadCall(1, first_loader(model_type, model_files), self_device, TRUE)>>
    /\ waited = {}

GenInit ==
    /\ DiagUnused
    /\ DetectorDone({s \in MonSystemInfos : s.cpu_percent <= 95},
                    {c \in MonDeviceCatalogs : c["mps"].supported})
    /\ LoaderMonitor
    /\ LoaderLoaded
    /\ request \in Requests
    /\ gpc = "idle"
    /\ attempt = 0
    /\ outcomes = <<>>
    /\ result = NoResult

GenNext ==
    \/ GenerateNonStream
    \/ \E out \in AttemptOutcomes : GenerationAttempt(out)

\* One generate_non_stream call on a loaded model, for every request and
\* every sequence of per-attempt outcomes
SpecGenerate == GenInit /\ [][GenNext]_vars

ConfigNext == DetNext \/ SaveConfig \/ ReadConfig

\* main() of device_detection_test.py: the detector is built, its
\* configuration is written as JSON, and a reader parses it back
SpecConfig == DetectorInit /\ [][ConfigNext]_vars

ProbeNext ==
    \/ \E snapshot \in SystemInfos : GetSystemInfo(snapshot)
    \/ SelectBestDevice
    \/ CalculateResourceAllocation

FullDetectorInit == ProbeInit /\ MonitorUnused /\ ServerUnbuilt

\* DeviceDetector.__init__ from its first line, the system probe included
SpecProbe == FullDetectorInit /\ [][ProbeNext]_vars

RestartInit ==
    /\ DiagUnused
    /\ DetectorDone({s \in MonSystemInfos : s.cpu_percent <= 95},
                    {c \in MonDeviceCatalogs : c["mps"].supported})
    /\ MonitorNew(FALSE)
    /\ metrics = Healthy
    /\ alert_callbacks = <<>>
    /\ ServerUnbuilt

RestartNext ==
    \/ \E interval \in Intervals : StartMonitoring(interval)
    \/ StopMonitoring
    \/ JoinReturns
    \/ \E i \in 1..Len(loops) :
           \/ LoopHead(i)
           \/ LoopCheckAlerts(i)
           \/ LoopProcessAlerts(i)
           \/ LoopWake(i)
    \/ Tick

\* One ResourceMonitor under start_monitoring and stop_monitoring calls
SpecRestart == RestartInit /\ [][RestartNext]_vars

ReadersNext == ThrNext \/ GetCurrentThresholds

\* Threshold adjustment with a reader calling get_current_thresholds at
\* any moment
SpecReaders == ThrInit /\ [][ReadersNext]_vars

\* a monitor with one callback on a host whose resources are exhausted
StopInit ==
    /\ DiagUnused
    /\ DetectorDone({s \in MonSystemInfos : s.cpu_percent <= 95},
                    {c \in MonDeviceCatalogs : c["mps"].supported})
    /\ MonitorNew(TRUE)
    /\ metrics = Exhausted
    /\ alert_callbacks = <<"console">>
    /\ ServerUnbuilt

\* the steps of the monitor thread
LoopStep ==
    \E i \in 1..Len(loops) :
        \/ LoopHead(i)
        \/ LoopCheckAlerts(i)
        \/ LoopProcessAlerts(i)
        \/ LoopWake(i)

\* start_monitoring is called once; stop_monitoring at any moment
StopNext ==
    \/ \E interval \in Intervals : loops = <<>> /\ StartMonitoring(interval)
    \/ StopMonitoring
    \/ JoinReturns
    \/ LoopStep
    \/ Tick

\* One monitor thread that is started once and stopped; the thread is
\* scheduled, sleeps end and join returns
SpecStop ==
    /\ StopInit
    /\ [][StopNext]_vars
    /\ WF_vars(LoopStep)
    /\ WF_vars(JoinReturns)
    /\ WF_vars(Tick)

\* start_monitoring is called only once the thread of the start before it
\* has ended
CleanRestartNext ==
    \/ \E interval \in Intervals :
           /\ \A i \in 1..Len(loops) : loops[i].pc = "exited"
           /\ StartMonitoring(interval)
    \/ StopMonitoring
    \/ JoinReturns
    \/ LoopStep
    \/ Tick

\* A monitor that is stopped and, after its thread has ended, started again
SpecCleanRestart == StopInit /\ [][CleanRestartNext]_vars

EscalationNext ==
    \/ \E interval \in Intervals : loops = <<>> /\ StartMonitoring(interval)
    \/ LoopStep
    \/ \E m \in {Strained, Exhausted} : LoadSwings(m)
    \/ Tick

\* One monitor loop on a host whose load swings between the warning and
\* the critical range
SpecEscalation == StopInit /\ [][EscalationNext]_vars
\* ======================================================================
\* Properties of the DeviceDetector (checked under SpecDetector)
\* ======================================================================

PlanMade == resource_allocation.kind = "plan"

\* C1: every allocation plan _calculate_resource_allocation produces has
\* 2.0 <= recommended_memory_gb <= 16.0 and 0 <= memory_fraction <= 0.8.
C1_PlanWithinBounds ==
    PlanMade =>
        /\ resource_allocation.recommended_memory_gb >= 2 * GB
        /\ resource_allocation.recommended_memory_gb <= 16 * GB
        /\ resource_allocation.memory_fraction[2] > 0
        /\ resource_allocation.memory_fraction[1] >= 0
        /\ 5 * resource_allocation.memory_fraction[1]
               <= 4 * resource_allocation.memory_fraction[2]

\* a plan where both the 2.0 GB floor and the 0.8 cap bind
C1_Witness ==
    /\ PlanMade
    /\ safe_allocation_gb(best_device, system_info, other_processes) < 2 * GB
    /\ resource_allocation.recommended_memory_gb = 2 * GB
    /\ resource_allocation.recommended_memory_gb * 5 > 4 * system_info.total_memory_gb
    /\ resource_allocation.memory_fraction = <<4, 5>>

\* C2: selection followed by allocation never ends in an error; with no GPU
\* backend eligible the device is cpu, and the plan is at worst the floor plan.
C2_NeverRaises ==
    /\ dpc # "raised"
    /\ dpc = "done" => /\ best_device \in DeviceTypes
                       /\ PlanMade
                       /\ resource_allocation.recommended_memory_gb >= 2 * GB

\* The eligibility rule of the selection policy, stated on its own
Eligible(d, si, devs) ==
    IF d = "mps" THEN devs[d].supported
                      /\ si.available_memory_gb * 100 >= 25 * si.total_memory_gb
    ELSE IF d \in {"cuda", "rocm"} THEN devs[d].supported
                                        /\ si.available_memory_gb >= 6 * GB
    ELSE TRUE

FirstEligible(si, devs) ==
    LET i == CHOOSE k \in 1..4 :
                /\ Eligible(priority_order[k], si, devs)
                /\ \A j \in 1..(k - 1) : ~Eligible(priority_order[j], si, devs)
    IN priority_order[i]

\* C3: _select_best_device returns the first eligible backend in the order
\* mps, cuda, rocm, cpu (mps: supported and available/total >= 0.25; cuda and
\* rocm: supported and available >= 6.0 GB; cpu: always).  Total memory is
\* positive wherever available/total is defined.
C3_FirstEligibleWins ==
    (best_device # "" /\ system_info.total_memory_gb > 0) =>
        best_device = FirstEligible(system_info, devices)

\* mps supported at fraction 0.1 is skipped for a supported cuda with 10 GB
C3_Witness ==
    /\ system_info.total_memory_gb = 100 * GB
    /\ system_info.available_memory_gb = 10 * GB
    /\ devices["mps"].supported /\ devices["cuda"].supported
    /\ best_device = "cuda"

\* C4: available memory below 2.0 GB gives use_conservative = true, whatever
\* the device, total memory, cpu% and competing processes.
C4_LowMemoryIsConservative ==
    (PlanMade /\ system_info.available_memory_gb < 2 * GB) =>
        resource_allocation.use_conservative

\* 1.5 GB available on cpu, with no other trigger of conservative mode
C4_Witness ==
    /\ PlanMade
    /\ system_info.available_memory_gb = 15 * Tenth
    /\ best_device = "cpu"
    /\ system_info.cpu_percent <= 95
    /\ IntensiveCount(other_processes) <= 8
    /\ resource_allocation.use_conservative

\* The scenario of C5: 16 GB total, 3 GB available, only mps (and cpu) there
C5_Scenario ==
    /\ system_info.total_memory_gb = 16 * GB
    /\ system_info.available_memory_gb = 3 * GB
    /\ system_info.cpu_percent <= 95
    /\ devices["mps"].supported
    /\ ~devices["cuda"].supported /\ ~devices["rocm"].supported
    /\ other_processes = <<>>

\* C5 as stated: cpu selected, recommended memory clamped to the 2.0 GB
\* floor, use_conservative true, batch_size 2.
C5_Original ==
    (C5_Scenario /\ dpc = "done") =>
        /\ best_device = "cpu"
        /\ resource_allocation.recommended_memory_gb = 2 * GB
        /\ resource_allocation.use_conservative
        /\ resource_allocation.batch_size = 2

\* C5 (amended): in the scenario mps is skipped and cpu selected; the
\* recommended memory is 0.7 * 3 GB = 2.1 GB, above the floor, and the plan
\* is not conservative: use_conservative false, batch_size 4.
C5_ScenarioPlan ==
    (C5_Scenario /\ dpc = "done") =>
        /\ best_device = "cpu"
        /\ resource_allocation.recommended_memory_gb = 21 * Tenth
        /\ ~resource_allocation.use_conservative
        /\ resource_allocation.batch_size = 4
        /\ resource_allocation.conservative_memory_gb = 21 * Tenth

C5_Witness == C5_Scenario /\ dpc = "done" /\ best_device = "cpu"


\* the five triggers of conservative mode, read from the detector's state
ConservativeTrigger ==
    \/ system_info.available_memory_gb < 2 * GB
    \/ IntensiveCount(other_processes) > 8
    \/ system_info.cpu_percent > 95
    \/ resource_allocation.recommended_memory_gb < 2 * GB
    \/ (best_device = "mps" /\ system_info.available_memory_gb < 3 * GB)

\* C19: use_conservative is true exactly when one of the five triggers
\* holds (available < 2.0 GB, more than 8 listed resource-intensive
\* processes, cpu > 95%, final allocation < 2.0 GB, mps with available
\* < 3.0 GB); a conservative plan has batch_size 2, attention_heads 24,
\* hidden_size 3072 and conservative_memory_gb = min(recommended, 6.0), any
\* other plan 4, 32, 4096 and conservative_memory_gb = recommended.
C19_ConservativeTriggers ==
    PlanMade =>
        /\ resource_allocation.use_conservative <=> ConservativeTrigger
        /\ IF resource_allocation.use_conservative
           THEN /\ resource_allocation.batch_size = 2
                /\ resource_allocation.attention_heads = 24
                /\ resource_allocation.hidden_size = 3072
                /\ resource_allocation.conservative_memory_gb =
                       Min2(resource_allocation.recommended_memory_gb, 6 * GB)
           ELSE /\ resource_allocation.batch_size = 4
                /\ resource_allocation.attention_heads = 32
                /\ resource_allocation.hidden_size = 4096
                /\ resource_allocation.conservative_memory_gb =
                       resource_allocation.recommended_memory_gb

\* mps with 2.5 GB available is the only trigger; the plan is conservative
C19_Witness ==
    /\ PlanMade
    /\ best_device = "mps"
    /\ system_info.available_memory_gb = 25 * Tenth
    /\ system_info.cpu_percent <= 95
    /\ IntensiveCount(other_processes) <= 8
    /\ resource_allocation.use_conservative
    /\ resource_allocation.batch_size = 2

\* mps was selected with available/total in [0.25, 0.4)
MpsMediumBand ==
    /\ best_device = "mps"
    /\ ~PercentBelow(system_info, 25)
    /\ PercentBelow(system_info, 40)

\* C20: when mps is selected with available/total in [0.25, 0.4), the plan
\* made for it has use_conservative = true and batch_size 2.
C20_MediumBandIsConservative ==
    (PlanMade /\ MpsMediumBand) =>
        /\ resource_allocation.use_conservative
        /\ resource_allocation.batch_size = 2

\* the cap of the base allocation: 2 / 4 / 6 GB in the three mps bands, 8 GB
\* on cpu, 12 GB on cuda and rocm
BaseCap ==
    IF best_device = "mps"
    THEN IF PercentBelow(system_info, 30) THEN 2 * GB
         ELSE IF PercentBelow(system_info, 50) THEN 4 * GB
         ELSE 6 * GB
    ELSE IF best_device = "cpu" THEN 8 * GB
    ELSE 12 * GB

\* total - other_processes_memory - 0.2 * total
Headroom ==
    system_info.total_memory_gb - other_processes_memory_gb(other_processes)
        - Times(system_info.total_memory_gb, 2, 10)

\* clamp(min(base, 0.7 * available, headroom), 2.0, 16.0)
ClampedSizing(base) ==
    Min2(Max2(Min2(base, Min2(Times(system_info.available_memory_gb, 7, 10), Headroom)),
              2 * GB),
         16 * GB)

C27_Original ==
    PlanMade =>
        /\ resource_allocation.recommended_memory_gb <= system_info.available_memory_gb
        /\ resource_allocation.conservative_memory_gb
               <= resource_allocation.recommended_memory_gb

\* C27 amended: recommended_memory_gb is at most the available memory
\* whenever at least 2.0 GB are available; with less than 2.0 GB available
\* it is the 2.0 GB floor, which is more than what is free.
\* conservative_memory_gb is at most recommended_memory_gb for every input.
C27_WithinAvailableAboveFloor ==
    PlanMade =>
        /\ IF system_info.available_memory_gb >= 2 * GB
           THEN resource_allocation.recommended_memory_gb
                    <= system_info.available_memory_gb
           ELSE resource_allocation.recommended_memory_gb = 2 * GB
        /\ resource_allocation.conservative_memory_gb
               <= resource_allocation.recommended_memory_gb

\* exactly 2.0 GB available: the floor binds and the plan takes all of it
C27_Witness ==
    /\ PlanMade
    /\ system_info.available_memory_gb = 2 * GB
    /\ resource_allocation.recommended_memory_gb = system_info.available_memory_gb
    /\ resource_allocation.conservative_memory_gb = 2 * GB
\* ======================================================================
\* Properties of the ResourceMonitor
\* ======================================================================

ExpectedWarning(device) ==
    CASE device = "mps" -> 4 * GB
      [] device = "cpu" -> 8 * GB
      [] OTHER -> 6 * GB

ExpectedCritical(device) ==
    CASE device = "mps" -> 2 * GB
      [] device = "cpu" -> 4 * GB
      [] OTHER -> 3 * GB

Scaled(x, conservative) == IF conservative THEN (x * 12) \div 10 ELSE x

\* C6 (under SpecThresholds): after one or more calls of
\* _adjust_thresholds_for_device / force_threshold_adjustment for the same
\* (device, conservative flag), warning/critical are 4.0/2.0 (mps), 8.0/4.0
\* (cpu), 6.0/3.0 (other), times 1.2 when conservative, however often the
\* call is repeated.
C6_ThresholdsIdempotent ==
    (has_detector /\ apc = "idle") =>
        /\ adjust_calls >= 1
        /\ thresholds.memory_warning =
               Scaled(ExpectedWarning(best_device), resource_allocation.use_conservative)
        /\ thresholds.memory_critical =
               Scaled(ExpectedCritical(best_device), resource_allocation.use_conservative)

\* three completed calls for cuda in conservative mode: still 7.2 / 3.6
C6_Witness ==
    /\ has_detector /\ apc = "idle"
    /\ adjust_calls >= 3
    /\ best_device = "cuda"
    /\ resource_allocation.use_conservative
    /\ thresholds.memory_warning = 72 * Tenth
    /\ thresholds.memory_critical = 36 * Tenth

\* the entries of sequence s after position n whose key is k
NewWithKey(s, n, k) == {j \in (n + 1)..Len(s) : s[j].key = k}
NewAlertsWithKey(s, n, k) == {j \in (n + 1)..Len(s) : alert_key(s[j]) = k}

\* C7 (under SpecMonitor): in a running monitor loop, an alert whose key was
\* sent less than 10 s ago is neither appended to alert_history nor delivered
\* (so two fires less than 10 s apart give exactly one alert); an alert whose
\* key was last sent 31 s ago is appended once and delivered to every callback.
C7_CooldownStep ==
    \A i \in 1..Len(loops) :
        (loops[i].pc = "process" /\ loops'[i].pc = "sleep") =>
            \A n \in 1..Len(loops[i].alerts) :
                LET k == alert_key(loops[i].alerts[n])
                    last == loops[i].last_alert_time[k]
                    sent == NewAlertsWithKey(alert_history', Len(alert_history), k)
                    calls == NewWithKey(delivered', Len(delivered), k)
                IN /\ (last # Never /\ now - last < 10) =>
                          sent = {} /\ calls = {}
                   /\ (last # Never /\ now - last = 31) =>
                          /\ Cardinality(sent) = 1
                          /\ \A j \in sent : alert_history'[j].timestamp = now
                          /\ Cardinality(calls) = Len(alert_callbacks)

C7_Cooldown == [][C7_CooldownStep]_vars

\* memory_critical sent at t, held back less than 10 s later, sent again at
\* t + 31, each sent alert delivered to the callbacks
C7_Witness ==
    \E i \in 1..Len(loops) :
        \E a, b \in 1..Len(alert_history) :
            /\ alert_key(alert_history[a]) = "memory_critical"
            /\ alert_key(alert_history[b]) = "memory_critical"
            /\ alert_history[b].timestamp = alert_history[a].timestamp + 31
            /\ loops[i].suppressed["memory_critical"] # Never
            /\ loops[i].suppressed["memory_critical"] - alert_history[a].timestamp < 10
            /\ loops[i].suppressed["memory_critical"] > alert_history[a].timestamp
            /\ Cardinality({j \in 1..Len(alert_history) :
                               alert_key(alert_history[j]) = "memory_critical"}) = 2
            /\ alert_callbacks # <<>>
            /\ Cardinality({j \in 1..Len(delivered) :
                               delivered[j].key = "memory_critical"})
                   = 2 * Len(alert_callbacks)


\* delivered[d] is a call of a callback with alert a
IsCallFor(d, a) ==
    /\ delivered[d].key = alert_key(a)
    /\ delivered[d].timestamp = a.timestamp

\* C14 (under SpecMonitor): a callback that raises while an alert is
\* delivered stops nothing but itself: every registered callback, the ones
\* after it included, is called for every alert in alert_history, every
\* delivered alert is in alert_history, and the loop never ends while
\* monitoring is set.
C14_CallbackErrorContained ==
    /\ \A n \in 1..Len(alert_history) :
           \A j \in 1..Len(alert_callbacks) :
               \E d \in 1..Len(delivered) :
                   delivered[d].callback = j /\ IsCallFor(d, alert_history[n])
    /\ \A d \in 1..Len(delivered) :
           \E n \in 1..Len(alert_history) : IsCallFor(d, alert_history[n])
    /\ monitoring => \A i \in 1..Len(loops) : loops[i].pc # "exited"

\* a raising callback was called, the callback after it was called for the
\* same alert, and a later tick delivered again
C14_Witness ==
    \E d, e, g \in 1..Len(delivered) :
        /\ delivered[d].kind = "raising"
        /\ delivered[e].callback = delivered[d].callback + 1
        /\ delivered[e].key = delivered[d].key
        /\ delivered[e].timestamp = delivered[d].timestamp
        /\ delivered[g].kind = "raising"
        /\ delivered[g].timestamp > delivered[d].timestamp
        /\ \E n \in 1..Len(alert_history) : IsCallFor(d, alert_history[n])

\* loop i has passed `while self.monitoring` and is sampling
Sampling(i) == loops[i].pc \in {"check", "process"}

Alive(i) == loops[i].pc # "exited"

\* C15 (under SpecRestart): whatever start_monitoring / stop_monitoring
\* calls are made, at most one _monitor_loop is active: a loop started
\* earlier never samples while a loop started later is alive.
C15_AtMostOneLoop ==
    \A i, j \in 1..Len(loops) : (i < j /\ Alive(j)) => ~Sampling(i)

MemoryPair(th) == <<th.memory_warning, th.memory_critical>>

\* the complete pairs: the constructor's defaults (before the first
\* adjustment) and the adjusted pair of the detector's device and flag
CompletePairs ==
    {MemoryPair(DefaultThresholds),
     MemoryPair(adjust_thresholds_for_device(DefaultThresholds, best_device,
                                             resource_allocation.use_conservative))}

\* C16 (under SpecReaders): the (memory_warning, memory_critical) pair a
\* get_current_thresholds() call returns while adjustments run is always a
\* complete pair, the one from before the adjustment or the one after it.
C16_NoHalfUpdatedPair == MemoryPair(observed) \in CompletePairs

\* the alerts of one check_alerts cycle that are about resource r
AlertsAbout(alerts, r) == SelectSeq(alerts, LAMBDA a : a.resource_type = r)

\* what a cycle holds about resource r with value v: one critical alert
\* when v is at or beyond critical, else one warning alert when it is at or
\* beyond warning, else none; an alert carries v, the threshold it crossed
\* and a recommendation
OneAlertFor(alerts, r, v, atCritical, atWarning, critical, warning) ==
    LET about == AlertsAbout(alerts, r) IN
    IF atCritical
    THEN /\ Len(about) = 1
         /\ about[1].level = "critical"
         /\ about[1].threshold = critical
         /\ about[1].current_value = v
         /\ about[1].recommendation # ""
    ELSE IF atWarning
    THEN /\ Len(about) = 1
         /\ about[1].level = "warning"
         /\ about[1].threshold = warning
         /\ about[1].current_value = v
         /\ about[1].recommendation # ""
    ELSE about = <<>>

C24_Step ==
    \A i \in 1..Len(loops) :
        (loops[i].pc = "check" /\ loops'[i].pc = "process") =>
            LET alerts == loops'[i].alerts
                mc == thresholds.memory_critical
                mw == thresholds.memory_warning
            IN /\ OneAlertFor(alerts, "memory", metrics.memory_available_gb,
                              metrics.memory_available_gb <= mc,
                              metrics.memory_available_gb <= mw, mc, mw)
               /\ OneAlertFor(alerts, "cpu", metrics.cpu_percent,
                              metrics.cpu_percent >= thresholds.cpu_critical,
                              metrics.cpu_percent >= thresholds.cpu_warning,
                              thresholds.cpu_critical, thresholds.cpu_warning)
               /\ OneAlertFor(alerts, "disk", metrics.disk_free_gb,
                              metrics.disk_ok /\ metrics.disk_free_gb <= mc,
                              metrics.disk_ok /\ metrics.disk_free_gb <= mw, mc, mw)
               /\ OneAlertFor(alerts, "gpu", metrics.gpu_memory_available_gb,
                              metrics.cuda_available
                                  /\ metrics.gpu_memory_available_gb <= mc,
                              metrics.cuda_available
                                  /\ metrics.gpu_memory_available_gb <= mw, mc, mw)
               /\ \A n \in 1..Len(alerts) :
                      alerts[n].resource_type \in {"memory", "cpu", "disk", "gpu"}

\* C24 (under SpecMonitor): one check_alerts cycle compares memory, cpu,
\* disk (when readable) and gpu (when exposed) with the critical threshold
\* first and the warning threshold second, and yields per resource one
\* CRITICAL alert when the value is at or beyond critical, else one WARNING
\* alert when it is at or beyond warning, else none; every alert carries
\* the threshold it crossed and a recommendation.
C24_CriticalThenWarning == [][C24_Step]_vars

\* a cycle with memory, cpu and gpu between warning and critical and the
\* disk unreadable: three warnings, none about the disk
C24_Witness ==
    \E i \in 1..Len(loops) :
        /\ loops[i].pc = "process"
        /\ Len(loops[i].alerts) = 3
        /\ \A n \in 1..3 : loops[i].alerts[n].level = "warning"
        /\ AlertsAbout(loops[i].alerts, "disk") = <<>>
        /\ loops[i].alerts[1].threshold = thresholds.memory_warning
        /\ loops[i].alerts[1].current_value > thresholds.memory_critical

\* stop_monitoring was called on a monitor whose thread had been started
Stopped == ~monitoring /\ loops # <<>>

AllExited == \A i \in 1..Len(loops) : loops[i].pc = "exited"

\* the sleeps of the stopped loop end within the time the model covers
SleepEndsInTime ==
    \A i \in 1..Len(loops) :
        /\ loops[i].pc = "sleep" => loops[i].wake_at <= MaxTime
        /\ loops[i].pc \in {"check", "process"} => now + loops[i].interval <= MaxTime

\* the order of one tick: loop head, sample, alert delivery, sleep
AfterPc(pc) ==
    IF pc = "check" THEN "process"
    ELSE IF pc = "process" THEN "sleep"
    ELSE IF pc = "sleep" THEN "head"
    ELSE "exited"

C25_Step ==
    /\ Stopped =>
          \A i \in 1..Len(loops) :
              \/ loops'[i].pc = loops[i].pc
              \/ loops'[i].pc = AfterPc(loops[i].pc)
    /\ (Stopped /\ AllExited) =>
          /\ alert_history' = alert_history
          /\ delivered' = delivered
          /\ loops' = loops

\* C25 (under SpecStop): after stop_monitoring on a running monitor, with
\* no start_monitoring after it, the loop goes on through its tick (sample,
\* alert delivery, sleep) in order, leaves at the next loop head and so
\* terminates; once it has, nothing is appended to alert_history and no
\* callback is called.
C25_CooperativeStop ==
    /\ [][C25_Step]_vars
    /\ (Stopped /\ SleepEndsInTime) ~> AllExited

\* stopped and terminated after a tick that delivered alerts, more than an
\* interval ago
C25_Witness ==
    /\ Stopped
    /\ AllExited
    /\ alert_history # <<>>
    /\ Len(delivered) = Len(alert_history)
    /\ now > alert_history[Len(alert_history)].timestamp + loops[1].interval

\* the key of an alert: its resource and its level
KeyOf(a) == a.resource_type \o "_" \o a.level

\* the alerts with key k that a step appends to alert_history
Emitted(k) ==
    {n \in (Len(alert_history) + 1)..Len(alert_history') : KeyOf(alert_history'[n]) = k}

C26_Step ==
    \A i \in 1..Len(loops) :
        (loops[i].pc = "process" /\ loops'[i].pc = "sleep") =>
            \A n \in 1..Len(loops[i].alerts) :
                LET k == KeyOf(loops[i].alerts[n])
                    last == loops[i].last_alert_time[k]
                IN (Emitted(k) # {}) <=> (last = Never \/ now - last >= 30)

\* C26 (under SpecMonitor): within a loop an alert is emitted if and only
\* if its key was never emitted by this loop or at least 30 s have passed
\* since the key's last emission; an alert that fires exactly 30 s after
\* the last emission of its key is emitted, not held back.
C26_InclusiveCooldown == [][C26_Step]_vars

\* the positions in alert_history of the alerts with key k
EmittedWithKey(k) == {n \in 1..Len(alert_history) : KeyOf(alert_history[n]) = k}

\* C28 (under SpecCleanRestart): the cooldown holds over the lifetime of
\* the ResourceMonitor, a stop and a new start included: two alerts of one
\* key in alert_history are never less than 30 s apart.
C28_CooldownSurvivesRestart ==
    \A k \in AlertKeys :
        \A a, b \in EmittedWithKey(k) :
            a < b => alert_history[b].timestamp - alert_history[a].timestamp >= 30

OtherLevel(level) == IF level = "critical" THEN "warning" ELSE "critical"

\* the key k was emitted by loop i less than 30 s ago
InCooldown(i, k) ==
    /\ loops[i].last_alert_time[k] # Never
    /\ now - loops[i].last_alert_time[k] < 30

C30_OriginalStep ==
    \A i \in 1..Len(loops) :
        (loops[i].pc = "process" /\ loops'[i].pc = "sleep") =>
            \A n \in 1..Len(loops[i].alerts) :
                LET a == loops[i].alerts[n] IN
                (a.level = "critical" /\ InCooldown(i, a.resource_type \o "_warning")) =>
                    Emitted(a.resource_type \o "_critical") # {}

\* C30 as claimed: when the WARNING alert of a resource was emitted less
\* than 30 s ago and the resource now crosses its critical threshold, the
\* CRITICAL alert is emitted on that tick.
C30_Original == [][C30_OriginalStep]_vars

C30_Step ==
    \A i \in 1..Len(loops) :
        (loops[i].pc = "process" /\ loops'[i].pc = "sleep") =>
            \A n \in 1..Len(loops[i].alerts) :
                LET a == loops[i].alerts[n]
                    own == a.resource_type \o "_" \o a.level
                    other == a.resource_type \o "_" \o OtherLevel(a.level)
                    last == loops[i].last_alert_time[own]
                IN (InCooldown(i, other) /\ (last = Never \/ now - last > 30)) =>
                       Emitted(own) # {}

\* C30 amended: the cooldown of one level never holds back the other level
\* of the same resource: with the WARNING alert emitted less than 30 s ago,
\* a CRITICAL alert of that resource is emitted on the tick it fires, and
\* vice versa, provided the alert's own key was never emitted by this loop
\* or was emitted more than 30 s ago.
C30_EscalationNotHidden == [][C30_Step]_vars

\* cpu_warning emitted, cpu_critical emitted less than 30 s after it
C30_Witness ==
    \E a, b \in 1..Len(alert_history) :
        /\ KeyOf(alert_history[a]) = "cpu_warning"
        /\ KeyOf(alert_history[b]) = "cpu_critical"
        /\ alert_history[b].timestamp > alert_history[a].timestamp
        /\ alert_history[b].timestamp - alert_history[a].timestamp < 30

\* ======================================================================
\* Properties of OptimizedLlamaModel
\* ======================================================================

AllReturned == \A t \in Callers : lpc[t] = "returned"

SuccessfulLoads == {j \in 1..Len(loads) : loads[j].ok}

LoadingThreads == {loads[j].thread : j \in 1..Len(loads)}

\* C8: when all the threads that called load_model concurrently on an
\* unloaded model have returned, is_loaded is true, exactly one call of
\* _load_gguf_model / _load_pytorch_model has succeeded, one thread alone
\* called a loader (exactly once when no loader call failed), and no thread
\* that found load_lock taken called a loader.
C8_LoadedOnce ==
    AllReturned =>
        /\ is_loaded
        /\ Cardinality(SuccessfulLoads) = 1
        /\ Cardinality(LoadingThreads) = 1
        /\ ((\A j \in 1..Len(loads) : loads[j].ok) => Len(loads) = 1)
        /\ waited \cap LoadingThreads = {}
        /\ load_lock = {}

C8_Witness ==
    /\ AllReturned
    /\ waited # {}
    /\ Len(loads) = 1
    /\ is_loaded

GenerationOver == gpc \in {"returned", "raised"}

Rejected(o) == o.outcome.kind = "text" /\ ~validate_response(Strip(o.outcome.text))

AllRejected == \A j \in 1..Len(outcomes) : Rejected(outcomes[j])

AllFailed ==
    \A j \in 1..Len(outcomes) :
        outcomes[j].outcome.kind = "raise" \/ Rejected(outcomes[j])

\* C10: on a loaded model generate_non_stream never propagates an
\* exception: whatever each attempt meets (valid response, rejected
\* response, the runtime raising) the call returns after at most 3
\* attempts, with the templated fallback when all 3 attempts failed.
C10_NeverPropagates ==
    /\ gpc # "raised"
    /\ Len(outcomes) <= 3
    /\ (GenerationOver /\ AllFailed) =>
           /\ Len(outcomes) = 3
           /\ result.fallback = TRUE
           /\ result.response \in FallbackTemplates

\* the loader calls made by thread t, in order
CallsOf(t) == SelectSeq(loads, LAMBDA c : c.thread = t)

\* thread t is past the try block and its first loader call failed on mps
FirstLoadFailedOnMps(t) ==
    /\ lpc[t] # "load"
    /\ CallsOf(t) # <<>>
    /\ ~CallsOf(t)[1].ok
    /\ CallsOf(t)[1].device = "mps"

\* thread t is in, or has been through, the cpu fallback of load_model
CpuFallbackOf(t) ==
    \/ /\ lpc[t] = "fallback"
       /\ self_device = "cpu"
       /\ max_memory_gb <= 8 * GB
       /\ use_conservative_settings = TRUE
    \/ /\ lpc[t] \in {"returned", "RuntimeError"}
       /\ Len(CallsOf(t)) = 2
       /\ CallsOf(t)[2].device = "cpu"
       /\ CallsOf(t)[2].loader = "_load_pytorch_model"
       /\ self_device = "cpu"

C13_AtMostTwoAttempts ==
    /\ \A t \in Callers :
          /\ Len(CallsOf(t)) <= 2
          /\ Len(CallsOf(t)) = 2 =>
                 /\ ~CallsOf(t)[1].ok
                 /\ CallsOf(t)[1].device = "mps"
                 /\ CallsOf(t)[2].device = "cpu"
          /\ lpc[t] = "RuntimeError" <=>
                 (Len(CallsOf(t)) = 2 /\ ~CallsOf(t)[2].ok)
    /\ is_loaded <=> (SuccessfulLoads # {})

\* both attempts of one call failed: raised, model not loaded
C13_Witness ==
    \E t \in Callers :
        /\ lpc[t] = "RuntimeError"
        /\ Len(CallsOf(t)) = 2
        /\ ~CallsOf(t)[1].ok
        /\ ~CallsOf(t)[2].ok
        /\ ~is_loaded
        /\ Len(loads) = 2

\* C18 (under SpecLoader): in every state of the loader, also after a cpu
\* fallback, the conservative flag and the three size settings belong to
\* one plan: use_conservative_settings = true implies batch_size = 2,
\* num_attention_heads = 24 and hidden_size = 3072.
C18_SettingsFromOnePlan ==
    use_conservative_settings =>
        /\ batch_size = 2
        /\ num_attention_heads = 24
        /\ hidden_size = 3072

\* C22: attempt 0 of generate_non_stream runs with the caller's temperature
\* and max_tokens; attempt k = 1, 2 runs with min(temperature * (1 + 0.2k),
\* 1.5) and min(max_tokens * (1 + 0.3k), 200); there is no attempt 3.
C22_RetryParameters ==
    \A j \in 1..Len(outcomes) :
        LET k == j - 1 IN
        /\ outcomes[j].attempt = k
        /\ k <= 2
        /\ IF k = 0
           THEN /\ outcomes[j].temperature = request.temperature
                /\ outcomes[j].max_tokens = request.max_tokens * 10
           ELSE /\ outcomes[j].temperature =
                       Min2((request.temperature * (10 + 2 * k)) \div 10, 150)
                /\ outcomes[j].max_tokens =
                       Min2(request.max_tokens * (10 + 3 * k), 2000)

\* temperature 0.7 reaches 0.98 on attempt 2 and max_tokens 160 is cut to
\* 200 on attempt 1
C22_Witness ==
    /\ Len(outcomes) = 3
    /\ request.temperature = 70
    /\ request.max_tokens = 160
    /\ outcomes[3].temperature = 98
    /\ outcomes[2].max_tokens = 2000
    /\ outcomes[3].max_tokens = 2000

C29_ThresholdsFollowDevice ==
    /\ thresholds.memory_warning =
           (IF use_conservative_settings THEN Conservative(memory_warning_for(self_device, 0))
            ELSE memory_warning_for(self_device, 0))
    /\ thresholds.memory_critical =
           (IF use_conservative_settings THEN Conservative(memory_critical_for(self_device, 0))
            ELSE memory_critical_for(self_device, 0))
    /\ (self_device = "cpu" /\ best_device = "mps") =>
           /\ thresholds.memory_warning = 96 * Tenth
           /\ thresholds.memory_critical = 48 * Tenth

\* ======================================================================
\* Properties of the diagnostic configuration and the system probe
\* ======================================================================

ConfigRead == parsed_config.device # ""

C17_ProbeNeverRaises == dpc # "raised"
====
